---- MODULE Spec2Model ----
(***************************************************************************)
(* Model of streamChat (src/unnamed/part_000, lines 363-463): the          *)
(* incremental decoder of a "data: <json>\n" event stream.                 *)
(*                                                                         *)
(* Text is a sequence of tokens.  One token stands for one character or    *)
(* for a fixed run of characters that the code never cuts:                 *)
(*   "data:"  the five characters d a t a :   ":"  " "  the characters     *)
(*   "LF"     \n            "CR"  \r                                       *)
(*   "{"      the JSON text {"choices":[{"delta":{"content":"              *)
(*   "}"      the JSON text "}}]}                                          *)
(*   "a"      a one-byte character of a content string                     *)
(*   "E9"     the two-byte character U+00E9, bytes "C3" "A9"               *)
(*   "FFFD"   the replacement character the text decoder emits             *)
(*   "[DONE]" the sentinel token          "x"  text that is not JSON       *)
(* A byte stream is a sequence of the same tokens with "C3","A9" in place  *)
(* of "E9".                                                                *)
(***************************************************************************)
EXTENDS Naturals, Sequences, FiniteSets

\* ------------------------------------------------------------- bounds
\* The longest stream body, in protocol lines.
MaxLines == 2

\* ------------------------------------------------------- string helpers
Whitespace == {" ", "CR", "LF"}

Drop(s, n) == SubSeq(s, n + 1, Len(s))

StartsWith(s, p) == Len(s) >= Len(p) /\ SubSeq(s, 1, Len(p)) = p

EndsWith(s, c) == Len(s) > 0 /\ s[Len(s)] = c

\* String.prototype.indexOf: the first index of c (1-based), 0 when absent.
IndexOf(s, c) ==
  LET at == { i \in 1..Len(s) : s[i] = c }
  IN IF at = {} THEN 0 ELSE CHOOSE i \in at : \A j \in at : i <= j

\* String.prototype.trim: white space removed from both ends.
Trim(s) ==
  LET ink == { i \in 1..Len(s) : s[i] \notin Whitespace }
  IN IF ink = {} THEN <<>>
     ELSE SubSeq(s, CHOOSE i \in ink : \A j \in ink : i <= j,
                    CHOOSE i \in ink : \A j \in ink : j <= i)

\* String.prototype.split("\n"): the pieces between line feeds, empty ones kept.
RECURSIVE SplitLF(_)
SplitLF(s) ==
  LET i == IndexOf(s, "LF")
  IN IF i = 0 THEN <<s>>
     ELSE <<SubSeq(s, 1, i - 1)>> \o SplitLF(Drop(s, i))

\* A strip that removes the last character of every line, carriage return or
\* not.
StripCR_Always(line) == IF line = <<>> THEN line ELSE SubSeq(line, 1, Len(line) - 1)

\* if (line.endsWith("\r")) line = line.slice(0, -1)
StripCR(line) == IF EndsWith(line, "CR") THEN SubSeq(line, 1, Len(line) - 1) ELSE line

\* ------------------------------------------------------- the protocol
DataPrefix == <<"data:", " ">>

Sentinel == <<"[DONE]">>

ContentChars == {"a", "E9", "FFFD"}

\* JSON.parse(jsonStr) followed by parsed.choices?.[0]?.delta?.content:
\* ok is FALSE when JSON.parse throws, content is <<>> when the field is
\* absent or the empty string.  The payload null parses, and reading
\* parsed.choices of it throws a TypeError inside the same try: ok is FALSE
\* for it as well.
JsonParse(s) ==
  IF /\ Len(s) >= 2
     /\ s[1] = "{"
     /\ s[Len(s)] = "}"
     /\ \A i \in 2..(Len(s) - 1) : s[i] \in ContentChars
  THEN [ok |-> TRUE, content |-> SubSeq(s, 2, Len(s) - 1)]
  ELSE [ok |-> FALSE, content |-> <<>>]

\* ------------------------------------------------------- the callbacks
Delta(c) == [cb |-> "onDelta", arg |-> c]
Done == [cb |-> "onDone", arg |-> <<>>]
Error(reason) == [cb |-> "onError", arg |-> reason]

RateLimitMsg == <<"Request rate too high, please try again later">>
QuotaMsg == <<"Insufficient quota, please recharge to continue">>
ConnectionFailedMsg == <<"Connection failed, please retry">>
NoStreamMsg == <<"Unable to get response stream">>
NetworkMsg == <<"Network connection failed, please check your network and retry">>

\* A sink that puts the newest fragment first.
EmitContent_Prepend(out, content) ==
  IF content # <<>> THEN <<Delta(content)>> \o out ELSE out

\* if (content) onDelta(content)
EmitContent(out, content) == IF content # <<>> THEN Append(out, Delta(content)) ELSE out

\* ------------------------------------------------ incremental text decoder
\* decoder.decode(value, { stream: true }): UTF-8 decoding that carries an
\* incomplete character over to the next call.  pending is the lead byte held
\* back, <<>> when none.
\* decoder.decode(value) without { stream: true }: nothing is carried from one
\* chunk to the next, and bytes left incomplete at the end of a chunk decode to
\* the replacement character.
RECURSIVE Decode_PerChunk(_, _, _)
Decode_PerChunk(pending, bytes, text) ==
  IF bytes = <<>>
  THEN [text |-> IF pending # <<>> THEN Append(text, "FFFD") ELSE text,
        pending |-> <<>>]
  ELSE LET b == Head(bytes)
           flushed == IF pending # <<>> THEN Append(text, "FFFD") ELSE text
       IN IF b = "C3" THEN Decode_PerChunk(<<"C3">>, Tail(bytes), flushed)
          ELSE IF b = "A9"
               THEN IF pending = <<"C3">>
                    THEN Decode_PerChunk(<<>>, Tail(bytes), Append(text, "E9"))
                    ELSE Decode_PerChunk(<<>>, Tail(bytes), Append(text, "FFFD"))
               ELSE Decode_PerChunk(<<>>, Tail(bytes), Append(flushed, b))

RECURSIVE Decode(_, _, _)
Decode(pending, bytes, text) ==
  IF bytes = <<>> THEN [text |-> text, pending |-> pending]
  ELSE LET b == Head(bytes)
           flushed == IF pending # <<>> THEN Append(text, "FFFD") ELSE text
       IN IF b = "C3" THEN Decode(<<"C3">>, Tail(bytes), flushed)
          ELSE IF b = "A9"
               THEN IF pending = <<"C3">>
                    THEN Decode(<<>>, Tail(bytes), Append(text, "E9"))
                    ELSE Decode(<<>>, Tail(bytes), Append(text, "FFFD"))
               ELSE Decode(<<>>, Tail(bytes), Append(flushed, b))

\* textBuffer = ... in place of textBuffer += ...
AppendChunk_Replace(buf, text) == text

\* textBuffer += decoder.decode(value, { stream: true })
AppendChunk(buf, text) == buf \o text

\* ------------------------------------------------------- the inner scan
\* while ((newlineIndex = textBuffer.indexOf("\n")) !== -1) { ... }
\* The result is the buffer left, the callbacks made so far and streamDone.
\* A scan whose catch block drops the line it could not parse and goes on
\* with the next one.
RECURSIVE Scan_SkipBad(_, _)
Scan_SkipBad(buf, out) ==
  LET i == IndexOf(buf, "LF")
  IN IF i = 0 THEN [buf |-> buf, out |-> out, done |-> FALSE]
     ELSE LET line == StripCR(SubSeq(buf, 1, i - 1))
              rest == Drop(buf, i)
          IN IF StartsWith(line, <<":">>) \/ Trim(line) = <<>> THEN Scan_SkipBad(rest, out)
             ELSE IF ~StartsWith(line, DataPrefix) THEN Scan_SkipBad(rest, out)
             ELSE LET jsonStr == Trim(Drop(line, Len(DataPrefix)))
                      parsed == JsonParse(jsonStr)
                  IN IF jsonStr = Sentinel
                     THEN [buf |-> rest, out |-> out, done |-> TRUE]
                     ELSE IF parsed.ok
                     THEN Scan_SkipBad(rest, EmitContent(out, parsed.content))
                     ELSE Scan_SkipBad(rest, out)

RECURSIVE Scan(_, _)
Scan(buf, out) ==
  LET i == IndexOf(buf, "LF")
  IN IF i = 0 THEN [buf |-> buf, out |-> out, done |-> FALSE]
     ELSE LET line == StripCR(SubSeq(buf, 1, i - 1))
              rest == Drop(buf, i)
          IN IF StartsWith(line, <<":">>) \/ Trim(line) = <<>> THEN Scan(rest, out)
             ELSE IF ~StartsWith(line, DataPrefix) THEN Scan(rest, out)
             ELSE LET jsonStr == Trim(Drop(line, Len(DataPrefix)))
                      parsed == JsonParse(jsonStr)
                  IN IF jsonStr = Sentinel
                     THEN [buf |-> rest, out |-> out, done |-> TRUE]
                     ELSE IF parsed.ok
                     THEN Scan(rest, EmitContent(out, parsed.content))
                     ELSE [buf |-> line \o <<"LF">> \o rest, out |-> out, done |-> FALSE]

\* ------------------------------------------------------- the final flush
\* A flush that reports a line it cannot parse instead of ignoring it.
FlushLine_ErrorOnBad(raw0, out) ==
  LET raw == StripCR(raw0)
      jsonStr == Trim(Drop(raw, Len(DataPrefix)))
      parsed == JsonParse(jsonStr)
  IN IF raw0 = <<>> \/ StartsWith(raw, <<":">>) \/ Trim(raw) = <<>> THEN out
     ELSE IF ~StartsWith(raw, DataPrefix) \/ jsonStr = Sentinel THEN out
     ELSE IF parsed.ok THEN EmitContent(out, parsed.content)
     ELSE Append(out, Error(NetworkMsg))

\* The body of for (let raw of textBuffer.split("\n")) for one piece.
FlushLine(raw0, out) ==
  IF raw0 = <<>> THEN out
  ELSE LET raw == StripCR(raw0)
       IN IF StartsWith(raw, <<":">>) \/ Trim(raw) = <<>> THEN out
          ELSE IF ~StartsWith(raw, DataPrefix) THEN out
          ELSE LET jsonStr == Trim(Drop(raw, Len(DataPrefix)))
                   parsed == JsonParse(jsonStr)
               IN IF jsonStr = Sentinel THEN out
                  ELSE IF parsed.ok THEN EmitContent(out, parsed.content)
                  ELSE out

\* A flush that handles the first piece of the buffer and stops.
FlushLines_FirstOnly(pieces, out) ==
  IF pieces = <<>> THEN out ELSE FlushLine(Head(pieces), out)

RECURSIVE FlushLines(_, _)
FlushLines(pieces, out) ==
  IF pieces = <<>> THEN out
  ELSE FlushLines(Tail(pieces), FlushLine(Head(pieces), out))

\* A flush that handles only the pieces a line feed ends.
Flush_DropsLastPiece(buf, out) ==
  IF Trim(buf) = <<>> THEN out
  ELSE FlushLines(SubSeq(SplitLF(buf), 1, Len(SplitLF(buf)) - 1), out)

\* if (textBuffer.trim()) { for (let raw of textBuffer.split("\n")) ... }
Flush(buf, out) ==
  IF Trim(buf) = <<>> THEN out ELSE FlushLines(SplitLF(buf), out)

\* onDone() called before the final flush.
Finish_DoneFirst(buf, out) == Flush(buf, Append(out, Done))

\* What follows the read loop: the final flush, then onDone().
Finish(buf, out) == Append(Flush(buf, out), Done)

\* ------------------------------------------------------- the byte source
\* The response body is a sequence of protocol lines.  A line is given by its
\* kind and its terminator; only the last line may lack a terminator.
LineKinds == {"comment", "blank", "delta_a", "delta_e", "empty", "done", "bad", "other"}

Terminators == {"LF", "CRLF", "none"}

LineSpecs == [kind : LineKinds, term : Terminators]

KindBytes(kind) ==
  CASE kind = "comment" -> <<":", "x">>
    [] kind = "blank"   -> <<>>
    [] kind = "delta_a" -> DataPrefix \o <<"{", "a", "}">>
    [] kind = "delta_e" -> DataPrefix \o <<"{", "C3", "A9", "}">>
    [] kind = "empty"   -> DataPrefix \o <<"{", "}">>
    [] kind = "done"    -> DataPrefix \o Sentinel
    [] kind = "bad"     -> DataPrefix \o <<"x">>
    [] kind = "null"    -> DataPrefix \o <<"null">>
    [] kind = "other"   -> <<"x">>

TermBytes(term) ==
  CASE term = "LF"   -> <<"LF">>
    [] term = "CRLF" -> <<"CR", "LF">>
    [] term = "none" -> <<>>

LineBytes(l) == KindBytes(l.kind) \o TermBytes(l.term)

RECURSIVE Bytes(_)
Bytes(ls) == IF ls = <<>> THEN <<>> ELSE LineBytes(Head(ls)) \o Bytes(Tail(ls))

Bodies ==
  { ls \in UNION { [1..n -> LineSpecs] : n \in 0..MaxLines } :
      \A i \in 1..Len(ls) : ls[i].term = "none" => i = Len(ls) }

\* ------------------------------------------------------- the state
VARIABLES
  lines,       \* the response body the server sends, as protocol lines
  body,        \* the same body as bytes
  ends,        \* ends[i] is the byte offset at which line i ends, terminator included
  pos,         \* how many bytes of the body reader.read() has delivered
  cut,         \* the line inside which a chunk boundary last fell, 0 when none has
  pc,          \* "fetch": awaiting fetch; "read": awaiting reader.read(); "done": returned
  status,      \* resp.status, 0 before the response
  errorData,   \* what the body of a non-success response parsed to, "none" before
  reader,      \* whether resp.body.getReader() has been called
  decPending,  \* the TextDecoder's carried-over bytes
  textBuffer,  \* the pending buffer
  streamDone,  \* the sentinel has been recognized by the read loop
  sentinelAt,  \* the number of callbacks made when streamDone was set
  calls,       \* the callbacks invoked so far, in order
  exit,        \* the path on which streamChat returned
  abandoned,   \* the caller has abandoned the session
  carried,     \* a chunk began with bytes completing a character the decoder held
  peer,        \* a second streamChat call in progress: its own locals and callbacks
  edge,        \* the try-on edge function: the request it serves and its progress
  page         \* the page component: its state and its try-on run in progress

vars == <<lines, body, ends, pos, cut, pc, status, errorData, reader, decPending,
          textBuffer, streamDone, sentinelAt, calls, exit, abandoned, carried, peer,
                 edge, page>>

\* The edge function before a request has arrived.
EdgeIdle ==
  [pc |-> "idle", method |-> "none", body |-> "none", personImage |-> "absent",
   clothingImage |-> "absent", clothingDescription |-> FALSE, apiKey |-> "unset",
   analysis |-> "none", image |-> "none", gatewayCalls |-> 0, status |-> 0,
   generatedImage |-> FALSE]

\* The page as first rendered: the four useState initial values (an image and
\* a result are kept as present or not), no run of handleGenerate awaiting the
\* function, no request sent yet, no run ended yet.
PageIdle ==
  [uploadedImage |-> FALSE, selectedClothing |-> "none", result |-> FALSE,
   isLoading |-> FALSE, inFlight |-> 0, requested |-> FALSE,
   sent |-> [personImage |-> FALSE, clothing |-> "none"], outcome |-> "none"]

\* The byte offsets of line i in the body: it occupies LineStart(i)+1 .. LineEnd(i).
LineStart(i) == IF i = 1 THEN 0 ELSE ends[i - 1]
LineEnd(i) == ends[i]

Init ==
  /\ lines = <<>>
  /\ body = <<>>
  /\ ends = <<>>
  /\ pos = 0
  /\ cut = 0
  /\ pc = "fetch"
  /\ status = 0
  /\ errorData = "none"
  /\ reader = FALSE
  /\ decPending = <<>>
  /\ textBuffer = <<>>
  /\ streamDone = FALSE
  /\ sentinelAt = 0
  /\ calls = <<>>
  /\ exit = "none"
  /\ abandoned = FALSE
  /\ carried = FALSE
  /\ peer = [pc |-> "fetch", body |-> <<>>, pos |-> 0, decPending |-> <<>>,
             textBuffer |-> <<>>, streamDone |-> FALSE, calls |-> <<>>,
             exit |-> "none"]
  /\ edge = EdgeIdle
  /\ page = PageIdle

\* ------------------------------------------------------- the request
\* What await resp.json().catch(() => ({})) can give for a non-success response:
\*   "unparsable"  the body is not JSON: the catch gives {}
\*   "object"      a JSON object with no (or a falsy) error field
\*   "error"       a JSON object with an error string
\*   "null"        the JSON text null: errorData is null
ErrorBodies == {"unparsable", "object", "error", "null"}

ServerMsg == <<"server-supplied error">>

\* errorData.error || <the message of the status>
StatusReason(st, eb) ==
  IF eb = "error" THEN ServerMsg
  ELSE IF st = 429 THEN RateLimitMsg
  ELSE IF st = 402 THEN QuotaMsg
  ELSE ConnectionFailedMsg

\* Reading errorData.error of null throws a TypeError inside the outer try: the
\* catch block reports the network message instead.
NotOkReason(st, eb) == IF eb = "null" THEN NetworkMsg ELSE StatusReason(st, eb)

\* fetch() rejects: the catch block reports the network message.
FetchReject ==
  /\ pc = "fetch"
  /\ calls' = Append(calls, Error(NetworkMsg))
  /\ pc' = "done"
  /\ exit' = "rejected"
  /\ UNCHANGED <<lines, body, ends, pos, cut, status, errorData, reader, decPending,
                 textBuffer, streamDone, sentinelAt, abandoned,
                 carried, peer,
                 edge, page>>

\* if (!resp.ok) { ... onError(...); return; }
FetchNotOk ==
  /\ pc = "fetch"
  /\ \E st \in {402, 429, 500}, eb \in ErrorBodies :
       /\ status' = st
       /\ errorData' = eb
       /\ calls' = Append(calls, Error(NotOkReason(st, eb)))
       /\ exit' = IF eb = "null" THEN "thrown" ELSE "status"
  /\ pc' = "done"
  /\ UNCHANGED <<lines, body, ends, pos, cut, reader, decPending, textBuffer, streamDone,
                 sentinelAt, abandoned,
                 carried, peer,
                 edge, page>>

\* A return on a missing body that reports nothing.
FetchNoBody_Silent ==
  /\ pc = "fetch"
  /\ status' = 200
  /\ pc' = "done"
  /\ exit' = "nobody"
  /\ UNCHANGED <<lines, body, ends, pos, cut, errorData, reader, decPending, textBuffer,
                 streamDone, sentinelAt, calls, abandoned,
                 carried, peer,
                 edge, page>>

\* if (!resp.body) { onError("Unable to get response stream"); return; }
FetchNoBody ==
  /\ pc = "fetch"
  /\ status' = 200
  /\ calls' = Append(calls, Error(NoStreamMsg))
  /\ pc' = "done"
  /\ exit' = "nobody"
  /\ UNCHANGED <<lines, body, ends, pos, cut, errorData, reader, decPending, textBuffer,
                 streamDone, sentinelAt, abandoned,
                 carried, peer,
                 edge, page>>

\* The response is a success with a body: the reader is acquired and the
\* read loop suspends in its first reader.read().
FetchOk ==
  /\ pc = "fetch"
  /\ status' = 200
  /\ reader' = TRUE
  /\ pc' = "read"
  /\ \E ls \in Bodies :
       /\ lines' = ls
       /\ body' = Bytes(ls)
       /\ ends' = [i \in 1..Len(ls) |-> Len(Bytes(SubSeq(ls, 1, i)))]
  /\ UNCHANGED <<pos, cut, errorData, decPending, textBuffer, streamDone,
                 sentinelAt, calls, exit, abandoned,
                 carried, peer,
                 edge, page>>

\* ------------------------------------------------------- the read loop
\* The line strictly inside which the chunk boundary at byte offset p falls, or
\* the one cut before when it falls between two lines.
CutLine(p, before) ==
  LET inside == { i \in 1..Len(lines) : LineStart(i) < p /\ p < LineEnd(i) }
  IN IF inside = {} THEN before ELSE CHOOSE i \in inside : TRUE

\* reader.read() resolves with a chunk of k bytes: decode, append, scan.  When
\* the scan meets the sentinel the loop ends and the function runs on to the
\* final flush and onDone without suspending again.
ReadChunk ==
  /\ pc = "read"
  /\ \E k \in 0..(Len(body) - pos) :
       LET d == Decode(decPending, SubSeq(body, pos + 1, pos + k), <<>>)
           s == Scan(AppendChunk(textBuffer, d.text), calls)
       IN /\ pos' = pos + k
          /\ cut' = CutLine(pos + k, cut)
          /\ decPending' = d.pending
          /\ carried' = (carried \/ (decPending # <<>> /\ k > 0))
          /\ textBuffer' = s.buf
          /\ streamDone' = s.done
          /\ IF s.done
             THEN /\ sentinelAt' = Len(s.out)
                  /\ calls' = Finish(s.buf, s.out)
                  /\ pc' = "done"
                  /\ exit' = "sentinel"
             ELSE /\ calls' = s.out
                  /\ UNCHANGED <<sentinelAt, pc, exit>>
  /\ UNCHANGED <<lines, body, ends, status, errorData, reader, abandoned, peer,
                 edge, page>>

\* reader.read() resolves with done = true after the whole body was delivered:
\* break, final flush, onDone.
ReadEnd ==
  /\ pc = "read"
  /\ pos = Len(body)
  /\ calls' = Finish(textBuffer, calls)
  /\ pc' = "done"
  /\ exit' = "eof"
  /\ UNCHANGED <<lines, body, ends, pos, cut, status, errorData, reader, decPending,
                 textBuffer, streamDone, sentinelAt, abandoned,
                 carried, peer,
                 edge, page>>

\* A catch block that flushes the pending buffer before reporting.
ReadFail_Flushing ==
  /\ pc = "read"
  /\ calls' = Append(Flush(textBuffer, calls), Error(NetworkMsg))
  /\ pc' = "done"
  /\ exit' = "readfail"
  /\ UNCHANGED <<lines, body, ends, pos, cut, status, errorData, reader, decPending,
                 textBuffer, streamDone, sentinelAt, abandoned,
                 carried, peer,
                 edge, page>>

\* A read loop that asks for one more chunk after the sentinel, so that a
\* failing source is still observed and reported.
ReadFail_Late ==
  /\ pc = "read" \/ exit = "sentinel"
  /\ calls' = Append(calls, Error(NetworkMsg))
  /\ pc' = "done"
  /\ exit' = "readfail"
  /\ UNCHANGED <<lines, body, ends, pos, cut, status, errorData, reader, decPending,
                 textBuffer, streamDone, sentinelAt, abandoned,
                 carried, peer,
                 edge, page>>

\* A catch block that swallows the failure and returns.
ReadFail_Silent ==
  /\ pc = "read"
  /\ pc' = "done"
  /\ exit' = "readfail"
  /\ UNCHANGED <<lines, body, ends, pos, cut, status, errorData, reader, decPending,
                 textBuffer, streamDone, sentinelAt, calls, abandoned,
                 carried, peer,
                 edge, page>>

\* reader.read() rejects: the catch block reports the network message.
ReadFail ==
  /\ pc = "read"
  /\ calls' = Append(calls, Error(NetworkMsg))
  /\ pc' = "done"
  /\ exit' = "readfail"
  /\ UNCHANGED <<lines, body, ends, pos, cut, status, errorData, reader, decPending,
                 textBuffer, streamDone, sentinelAt, abandoned,
                 carried, peer,
                 edge, page>>

Next ==
  \/ FetchReject
  \/ FetchNotOk
  \/ FetchNoBody
  \/ FetchOk
  \/ ReadChunk
  \/ ReadEnd
  \/ ReadFail

Spec == Init /\ [][Next]_vars

\* ------------------------------------------------------- abandonment
\* The caller gives the session up (the component that started it goes away).
\* streamChat takes no abort signal and holds no flag the caller can set, so
\* the step changes nothing the session reads.
Abandon ==
  /\ abandoned' = TRUE
  /\ UNCHANGED <<lines, body, ends, pos, cut, pc, status, errorData, reader,
                 decPending, textBuffer, streamDone, sentinelAt, calls, exit,
                 carried, peer,
                 edge, page>>

NextAbandon == Next \/ Abandon

SpecAbandon == Init /\ [][NextAbandon]_vars

\* ------------------------------------------------------- expectations
\* What a body is expected to produce, read off the kinds of its lines (not
\* off the decoder).
IsPayload(l) == l.kind \in {"delta_a", "delta_e"}

Content(l) == IF l.kind = "delta_a" THEN <<"a">> ELSE <<"E9">>

RECURSIVE ExpDeltas(_)
ExpDeltas(ls) ==
  IF ls = <<>> THEN <<>>
  ELSE (IF IsPayload(Head(ls)) THEN <<Delta(Content(Head(ls)))>> ELSE <<>>)
       \o ExpDeltas(Tail(ls))

IsDelta(c) == c.cb = "onDelta"

IsTerminal(c) == c.cb \in {"onDone", "onError"}

DeltasOf(cs) == SelectSeq(cs, IsDelta)

\* No sentinel line and no unparsable data line precedes line i.
CleanBefore(i) == \A j \in 1..(i - 1) : lines[j].kind \notin {"bad", "done"}

\* The lines that are scanned while the stream is live: those a line feed ends,
\* up to the first unparsable data line.
RECURSIVE LiveLines(_)
LiveLines(ls) ==
  IF ls = <<>> \/ Head(ls).kind = "bad" \/ Head(ls).term = "none" THEN <<>>
  ELSE <<Head(ls)>> \o LiveLines(Tail(ls))

\* The lines wholly delivered, terminator included, within the first p bytes.
Delivered(p) ==
  SubSeq(lines, 1, Cardinality({ i \in 1..Len(lines) : LineEnd(i) <= p }))

\* s is t with some elements left out.
RECURSIVE IsSubseq(_, _)
IsSubseq(s, t) ==
  IF s = <<>> THEN TRUE
  ELSE IF t = <<>> THEN FALSE
  ELSE IF Head(s) = Head(t) THEN IsSubseq(Tail(s), Tail(t))
  ELSE IsSubseq(s, Tail(t))

\* The callbacks of the same bytes delivered as one chunk, then end of source.
OneChunk(bytes) ==
  LET d == Decode(<<>>, bytes, <<>>)
      s == Scan(AppendChunk(<<>>, d.text), <<>>)
  IN Finish(s.buf, s.out)

WellFormedKinds == {"comment", "blank", "delta_a", "delta_e", "empty", "done"}

WellFormed(ls) == \A i \in 1..Len(ls) : ls[i].kind \in WellFormedKinds

\* ------------------------------------------------------- claims

\* C1: at most one terminal callback (onDone or onError) is made in a session,
\* and it is the last callback made: none follows it.  Callbacks return
\* normally here.
C1_OneTerminalCallbackLast ==
  /\ Cardinality({ i \in 1..Len(calls) : IsTerminal(calls[i]) }) <= 1
  /\ \A i \in 1..Len(calls) : IsTerminal(calls[i]) => i = Len(calls)
  /\ pc = "done" => Len(calls) >= 1 /\ IsTerminal(calls[Len(calls)])

\* A session ended by the sentinel after at least one delta.
C1_Witness ==
  /\ exit = "sentinel"
  /\ Len(calls) >= 2
  /\ calls[Len(calls)] = Done

\* C2: for a body of well-formed lines, whatever the chunking, a session that
\* ran to completion has made the callbacks the same bytes make when they
\* arrive as one chunk.
C2_ChunkingIndependent ==
  (pc = "done" /\ exit \in {"sentinel", "eof"} /\ WellFormed(lines))
    => calls = OneChunk(body)

\* C3: once the read loop has recognized the sentinel, onDone is the very next
\* callback and the last: no delta is emitted from the bytes after the sentinel.
C3_NothingAfterSentinel ==
  streamDone =>
    /\ Len(calls) = sentinelAt + 1
    /\ calls[Len(calls)] = Done

\* C4: when the source closes cleanly and the read loop has not recognized a
\* sentinel, the flush has run over the buffer (every payload line of the body
\* has produced its delta, in order) and onDone is the one terminal callback.
C4_CleanCloseCompletes ==
  exit = "eof" => calls = ExpDeltas(lines) \o <<Done>>

\* The source closed with a payload line still in the buffer, which the flush
\* emitted.
C4_Witness ==
  /\ exit = "eof"
  /\ ~streamDone
  /\ Flush(textBuffer, <<>>) # <<>>
  /\ calls[Len(calls)] = Done

C6_DeltasInLineOrder == IsSubseq(DeltasOf(calls), ExpDeltas(lines))

\* Two different deltas, the first emitted by the read loop and the second by
\* the final flush.
C6_Witness ==
  /\ exit = "eof"
  /\ Len(DeltasOf(calls)) = 2
  /\ calls[1] # calls[2]
  /\ Len(Flush(textBuffer, <<>>)) = 1

\* C7: after a failed read the callbacks are the deltas of the lines scanned
\* live before the failure, then one onError with the network message: no
\* onDone, and nothing from the pending buffer.
C7_ReadFailureReported ==
  exit = "readfail" =>
    calls = ExpDeltas(LiveLines(Delivered(pos))) \o <<Error(NetworkMsg)>>

\* A read failed after a delta had been emitted and while the buffer held a
\* line the flush would have emitted.
C7_Witness ==
  /\ exit = "readfail"
  /\ Len(calls) >= 2
  /\ Flush(textBuffer, <<>>) # <<>>

\* C8: a non-success status gives exactly one callback, onError with the
\* server-supplied error or else the message of the status; the reader is not
\* acquired and nothing is read.
C8_RejectionReason ==
  status \in {402, 429, 500} =>
    /\ calls = <<Error(IF errorData = "error" THEN ServerMsg
                       ELSE IF status = 429 THEN RateLimitMsg
                       ELSE IF status = 402 THEN QuotaMsg
                       ELSE ConnectionFailedMsg)>>
    /\ ~reader
    /\ pos = 0
    /\ pc = "done"

\* C9: at a clean close with an unparsable data line in the body, that line has
\* produced no callback: the callbacks are deltas only, one per payload line,
\* none of them onError, and then onDone.
C9_FlushDiscardsUnparsable ==
  (exit = "eof" /\ \E i \in 1..Len(lines) : lines[i].kind = "bad") =>
    /\ calls[Len(calls)] = Done
    /\ \A i \in 1..(Len(calls) - 1) :
         calls[i].cb = "onDelta" /\ calls[i].arg \in {<<"a">>, <<"E9">>}
    /\ Len(calls) = Len(ExpDeltas(lines)) + 1

\* The source closed with an unparsable data line at the head of the buffer and
\* a payload line behind it, which the flush emitted.
C9_Witness ==
  /\ exit = "eof"
  /\ StartsWith(textBuffer, KindBytes("bad"))
  /\ Flush(textBuffer, <<>>) # <<>>
  /\ calls[Len(calls)] = Done

\* C10: once the caller has abandoned the session no callback is made.
C10_SilentAfterAbandon == [][abandoned => calls' = calls]_vars

\* C11: when the session has returned, whatever the exit path, the reader
\* acquired on the response body is no longer held.
C11_ReaderReleased == pc = "done" => ~reader

\* ------------------------------------------------------- ignorable lines
\* The lines the scan drops without looking further: comments, blank lines and
\* lines without the data prefix.
Ignorable(l) == l.kind \in {"comment", "blank", "other"}

Min(a, b) == IF a <= b THEN a ELSE b

\* The first p bytes of the body without the bytes of its ignorable lines.
RECURSIVE KeptBytes(_, _)
KeptBytes(i, p) ==
  IF i > Len(lines) THEN <<>>
  ELSE (IF Ignorable(lines[i]) THEN <<>>
        ELSE SubSeq(body, LineStart(i) + 1, Min(LineEnd(i), p)))
       \o KeptBytes(i + 1, p)

\* The buffer, the callbacks and streamDone after the given bytes have arrived
\* as one chunk and have been scanned.
AtRest(bytes) == Scan(AppendChunk(<<>>, Decode(<<>>, bytes, <<>>).text), <<>>)

\* Every ignorable line whose delivery has begun has been delivered whole, line
\* feed included.
IgnorableWhole ==
  \A i \in 1..Len(lines) :
    (Ignorable(lines[i]) /\ LineStart(i) < pos) =>
      (LineEnd(i) <= pos /\ lines[i].term # "none")

\* A whole line is held in the buffer while the decoder awaits a chunk: the
\* scan has pushed an unparsable data line back and stopped.
HeldLine(buf) == IndexOf(buf, "LF") # 0

\* C12: the session on a body with comment, blank and prefix-less lines makes
\* the callbacks of the same body without those lines (same deltas, same
\* terminal callback) and, whenever it awaits a chunk with those lines
\* delivered whole, holds the same pending buffer.
C12_IgnorableLinesInert ==
  LET sb == KeptBytes(1, pos)
      r == AtRest(sb)
  IN /\ pc = "read" => calls = r.out /\ (IgnorableWhole => textBuffer = r.buf)
     /\ exit \in {"sentinel", "eof"} => calls = OneChunk(sb)
     /\ exit = "readfail" => calls = Append(r.out, Error(NetworkMsg))

\* C13: on each failure path (fetch rejected, non-success status, error body
\* that cannot be read, missing body, failed read) the function has returned
\* with exactly one onError, made last, and no onDone.  Callbacks return
\* normally here.
C13_FailuresReportOnce ==
  exit \in {"rejected", "status", "thrown", "nobody", "readfail"} =>
    /\ pc = "done"
    /\ Cardinality({ i \in 1..Len(calls) : calls[i].cb = "onError" }) = 1
    /\ calls[Len(calls)].cb = "onError"
    /\ \A i \in 1..Len(calls) : calls[i] # Done

\* The response had no body and the one callback is onError with the
\* no-stream message.
C13_Witness ==
  /\ exit = "nobody"
  /\ calls = <<Error(NoStreamMsg)>>

\* ------------------------------------------------------- nothing withheld
IsTerminated(l) == l.term # "none"

\* The lines before the first sentinel line.
RECURSIVE BeforeSentinel(_)
BeforeSentinel(ls) ==
  IF ls = <<>> \/ Head(ls).kind = "done" THEN <<>>
  ELSE <<Head(ls)>> \o BeforeSentinel(Tail(ls))

\* C14: whenever the decoder awaits the next chunk, every payload line that a
\* line feed ends and that has been received whole (and that no sentinel line
\* precedes) has had its delta passed to onDelta.
C14_NothingWithheld ==
  pc = "read" =>
    DeltasOf(calls) =
      ExpDeltas(BeforeSentinel(SelectSeq(Delivered(pos), IsTerminated)))

\* ------------------------------------------------------- split characters
\* The bytes delivered so far, decoded as one piece.
Undivided == Decode(<<>>, SubSeq(body, 1, pos), <<>>)

HasChar(s, c) == \E i \in 1..Len(s) : s[i] = c

\* C16: whenever the decoder awaits a chunk, the pending buffer, the callbacks
\* and the bytes the text decoder holds back are those of the same bytes
\* delivered undivided, whatever chunk boundaries fell inside a multi-byte
\* character; no replacement character is in the buffer or in a delta.
C16_SplitCharacterIntact ==
  pc = "read" =>
    /\ decPending = Undivided.pending
    /\ textBuffer = AtRest(SubSeq(body, 1, pos)).buf
    /\ calls = AtRest(SubSeq(body, 1, pos)).out
    /\ ~HasChar(textBuffer, "FFFD")
    /\ \A i \in 1..Len(calls) : ~HasChar(calls[i].arg, "FFFD")

\* A chunk ended between the two bytes of a character, the next chunk began
\* with the second byte, and the character has since been emitted in a delta.
C16_Witness ==
  /\ pc = "read"
  /\ carried
  /\ decPending = <<>>
  /\ \E i \in 1..Len(calls) : calls[i] = Delta(<<"E9">>)

\* ------------------------------------------------------- the pending buffer
\* The text received after the last line the scan has extracted and consumed:
\* the lines scanned live are consumed; an unparsable data line is not.
UnconsumedText ==
  LET n == Len(LiveLines(Delivered(pos)))
      from == IF n = 0 THEN 0 ELSE LineEnd(n)
  IN Decode(<<>>, SubSeq(body, from + 1, pos), <<>>).text

\* C17: whenever the decoder awaits a chunk, the pending buffer is exactly the
\* text received after the last consumed line, also after a push-back and for
\* lines ended by CR LF.
C17_BufferIsUnconsumedSuffix == pc = "read" => textBuffer = UnconsumedText

\* ------------------------------------------------------- push-back
\* The first line the live scan has not consumed, Len(lines) + 1 when all are.
FirstUnconsumed == Len(LiveLines(Delivered(pos))) + 1

\* An unparsable data line has been received whole, line feed included, and is
\* the first line not consumed.
BadLineHeld ==
  /\ FirstUnconsumed <= Len(lines)
  /\ lines[FirstUnconsumed].kind = "bad"
  /\ lines[FirstUnconsumed].term # "none"
  /\ LineEnd(FirstUnconsumed) <= pos

\* C18: while the decoder awaits a chunk after a data line failed to parse, no
\* onError has been made, the buffer is that line followed by a line feed and
\* then everything received after it, and the callbacks are only the deltas of
\* the lines before it: the scan has not gone past the line.
C18_ParseFailurePushedBack ==
  (pc = "read" /\ BadLineHeld) =>
    /\ \A i \in 1..Len(calls) : calls[i].cb # "onError"
    /\ textBuffer =
         KindBytes("bad") \o <<"LF">>
           \o Decode(<<>>, SubSeq(body, LineEnd(FirstUnconsumed) + 1, pos), <<>>).text
    /\ calls = ExpDeltas(SubSeq(lines, 1, FirstUnconsumed - 1))

\* An unparsable data line is held at the head of the buffer and the text
\* received after it is kept behind it.
C18_Witness ==
  /\ pc = "read"
  /\ BadLineHeld
  /\ LineEnd(FirstUnconsumed) < pos
  /\ Len(textBuffer) > Len(KindBytes("bad")) + 1

\* C20: once the read loop has recognized the sentinel the function has
\* returned without awaiting another read (so a later failure of the source
\* has no step in which to be observed), its last callback is onDone and no
\* callback is onError.
C20_SentinelEndsWithDone ==
  streamDone =>
    /\ pc = "done"
    /\ exit = "sentinel"
    /\ calls[Len(calls)] = Done
    /\ \A i \in 1..Len(calls) : calls[i].cb # "onError"

\* The sentinel was recognized while the source still had bytes to deliver.
C20_Witness ==
  /\ streamDone
  /\ pos < Len(body)
  /\ calls[Len(calls)] = Done

\* ------------------------------------------------------- a flush of many lines
\* The bodies that open with an unparsable data line: the scan pushes that line
\* back each time, so every line behind it stays in the buffer and the final
\* flush is what handles them all.
BlockedBodies == { <<[kind |-> "bad", term |-> "LF"]>> \o ls : ls \in Bodies }

\* The response is a success whose body opens with an unparsable data line.
FetchOkBlocked ==
  /\ pc = "fetch"
  /\ status' = 200
  /\ reader' = TRUE
  /\ pc' = "read"
  /\ \E ls \in BlockedBodies :
       /\ lines' = ls
       /\ body' = Bytes(ls)
       /\ ends' = [i \in 1..Len(ls) |-> Len(Bytes(SubSeq(ls, 1, i)))]
  /\ UNCHANGED <<pos, cut, errorData, decPending, textBuffer, streamDone,
                 sentinelAt, calls, exit, abandoned, carried, peer,
                 edge, page>>

NextBlocked ==
  \/ FetchOkBlocked
  \/ ReadChunk
  \/ ReadEnd
  \/ ReadFail

SpecBlocked == Init /\ [][NextBlocked]_vars

\* C19: after the final flush at a clean close the deltas are those of the
\* payload lines before the first sentinel line of the flushed buffer: no
\* delta comes from a line that follows a sentinel line.
C19_FlushStopsAtSentinel ==
  (exit = "eof" /\ ~streamDone) =>
    DeltasOf(calls) = ExpDeltas(BeforeSentinel(lines))

\* ------------------------------------------------------- two sessions
\* Two streamChat calls in progress at once.  Each call declares its own
\* reader, decoder, textBuffer and streamDone (lines 405-408) and has its own
\* callbacks; the calls interleave where each awaits reader.read().  The first
\* call is the session of the variables above, the second is the record peer.
MaxLinesTwo == 1

TwoKinds == {"delta_e", "done", "bad"}

TwoBodies ==
  UNION { [1..n -> [kind : TwoKinds, term : {"LF"}]] : n \in 0..MaxLinesTwo }

\* What the first call owns.
own == <<lines, body, ends, pos, cut, pc, status, errorData, reader, decPending,
         textBuffer, streamDone, sentinelAt, calls, exit, abandoned, carried>>

\* The first call's response is a success with a body.
FetchOkTwo ==
  /\ pc = "fetch"
  /\ status' = 200
  /\ reader' = TRUE
  /\ pc' = "read"
  /\ \E ls \in TwoBodies :
       /\ lines' = ls
       /\ body' = Bytes(ls)
       /\ ends' = [i \in 1..Len(ls) |-> Len(Bytes(SubSeq(ls, 1, i)))]
  /\ UNCHANGED <<pos, cut, errorData, decPending, textBuffer, streamDone,
                 sentinelAt, calls, exit, abandoned, carried, peer,
                 edge, page>>

\* The second call's response is a success with a body.
PeerFetchOk ==
  /\ peer.pc = "fetch"
  /\ \E ls \in TwoBodies : peer' = [peer EXCEPT !.pc = "read", !.body = Bytes(ls)]
  /\ UNCHANGED <<own, edge, page>>

\* A second call that appends to and scans the first call's buffer: one buffer
\* declared outside the function.
PeerReadChunk_SharedBuffer ==
  /\ peer.pc = "read"
  /\ \E k \in 0..(Len(peer.body) - peer.pos) :
       LET d == Decode(peer.decPending, SubSeq(peer.body, peer.pos + 1, peer.pos + k), <<>>)
           s == Scan(AppendChunk(textBuffer, d.text), peer.calls)
       IN /\ textBuffer' = s.buf
          /\ peer' = [pc |-> IF s.done THEN "done" ELSE "read",
                      body |-> peer.body,
                      pos |-> peer.pos + k,
                      decPending |-> d.pending,
                      textBuffer |-> s.buf,
                      streamDone |-> s.done,
                      calls |-> IF s.done THEN Finish(s.buf, s.out) ELSE s.out,
                      exit |-> IF s.done THEN "sentinel" ELSE peer.exit]
  /\ UNCHANGED <<lines, body, ends, pos, cut, pc, status, errorData, reader, decPending,
                 streamDone, sentinelAt, calls, exit, abandoned, carried,
                 edge, page>>

\* The second call's reader.read() resolves with a chunk of k bytes.
PeerReadChunk ==
  /\ peer.pc = "read"
  /\ \E k \in 0..(Len(peer.body) - peer.pos) :
       LET d == Decode(peer.decPending, SubSeq(peer.body, peer.pos + 1, peer.pos + k), <<>>)
           s == Scan(AppendChunk(peer.textBuffer, d.text), peer.calls)
       IN peer' = [pc |-> IF s.done THEN "done" ELSE "read",
                   body |-> peer.body,
                   pos |-> peer.pos + k,
                   decPending |-> d.pending,
                   textBuffer |-> s.buf,
                   streamDone |-> s.done,
                   calls |-> IF s.done THEN Finish(s.buf, s.out) ELSE s.out,
                   exit |-> IF s.done THEN "sentinel" ELSE peer.exit]
  /\ UNCHANGED <<own, edge, page>>

\* The second call's reader.read() resolves with done = true.
PeerReadEnd ==
  /\ peer.pc = "read"
  /\ peer.pos = Len(peer.body)
  /\ peer' = [peer EXCEPT !.calls = Finish(peer.textBuffer, peer.calls),
                          !.pc = "done", !.exit = "eof"]
  /\ UNCHANGED <<own, edge, page>>

\* The second call's reader.read() rejects.
PeerReadFail ==
  /\ peer.pc = "read"
  /\ peer' = [peer EXCEPT !.calls = Append(peer.calls, Error(NetworkMsg)),
                          !.pc = "done", !.exit = "readfail"]
  /\ UNCHANGED <<own, edge, page>>

NextTwo ==
  \/ FetchOkTwo
  \/ ReadChunk
  \/ ReadEnd
  \/ ReadFail
  \/ PeerFetchOk
  \/ PeerReadChunk
  \/ PeerReadEnd
  \/ PeerReadFail

SpecTwo == Init /\ [][NextTwo]_vars

\* What a call running alone has made of the first p bytes of body b when it
\* is on exit path x ("none" while it awaits a read).
AloneCalls(b, p, x) ==
  IF x = "none" THEN AtRest(SubSeq(b, 1, p)).out
  ELSE IF x = "readfail" THEN Append(AtRest(SubSeq(b, 1, p)).out, Error(NetworkMsg))
  ELSE OneChunk(SubSeq(b, 1, p))

AloneBuffer(b, p) == AtRest(SubSeq(b, 1, p)).buf

AlonePending(b, p) == Decode(<<>>, SubSeq(b, 1, p), <<>>).pending

\* C15: with two calls interleaved at their reads in any order, each call's
\* callbacks (deltas and terminal callback) are those of that call alone on
\* the bytes it has received, and while it awaits a read its buffer, decoder
\* state and termination flag are those of that call alone.
C15_SessionsIndependent ==
  /\ calls = AloneCalls(body, pos, exit)
  /\ streamDone = (exit = "sentinel")
  /\ pc = "read" =>
       textBuffer = AloneBuffer(body, pos) /\ decPending = AlonePending(body, pos)
  /\ peer.calls = AloneCalls(peer.body, peer.pos, peer.exit)
  /\ peer.streamDone = (peer.exit = "sentinel")
  /\ peer.pc = "read" =>
       /\ peer.textBuffer = AloneBuffer(peer.body, peer.pos)
       /\ peer.decPending = AlonePending(peer.body, peer.pos)

\* Both calls are part-way through different bodies at the same time, each
\* holding an incomplete line.
C15_Witness ==
  /\ pc = "read"
  /\ peer.pc = "read"
  /\ body # peer.body
  /\ 0 < pos /\ pos < Len(body)
  /\ 0 < peer.pos /\ peer.pos < Len(peer.body)
  /\ textBuffer # <<>>
  /\ peer.textBuffer # <<>>

\* ------------------------------------------------------- no content
\* Bodies of data lines that JSON.parse accepts: a payload with content, an
\* object without content, and the JSON value null.
ParsedKinds == {"delta_a", "empty", "null"}

ParsedBodies ==
  UNION { [1..n -> [kind : ParsedKinds, term : {"LF"}]] : n \in 0..MaxLines }

\* The response is a success whose body is made of such lines.
FetchOkParsed ==
  /\ pc = "fetch"
  /\ status' = 200
  /\ reader' = TRUE
  /\ pc' = "read"
  /\ \E ls \in ParsedBodies :
       /\ lines' = ls
       /\ body' = Bytes(ls)
       /\ ends' = [i \in 1..Len(ls) |-> Len(Bytes(SubSeq(ls, 1, i)))]
  /\ UNCHANGED <<pos, cut, errorData, decPending, textBuffer, streamDone,
                 sentinelAt, calls, exit, abandoned, carried, peer,
                 edge, page>>

NextParsed ==
  \/ FetchOkParsed
  \/ ReadChunk
  \/ ReadEnd
  \/ ReadFail

SpecParsed == Init /\ [][NextParsed]_vars

\* The text received after the last of the lines that have been received
\* whole.
TextAfterWholeLines ==
  LET n == Len(Delivered(pos))
      from == IF n = 0 THEN 0 ELSE LineEnd(n)
  IN Decode(<<>>, SubSeq(body, from + 1, pos), <<>>).text

\* C21: in a body of data lines that all parse, while the decoder awaits a
\* chunk every line received whole has been consumed, the lines without
\* content as well (the buffer is the text after the last whole line), and
\* the callbacks are the deltas of the whole lines that have content: a line
\* without content gives no delta and does not stop the scan.
C21_NoContentConsumed ==
  pc = "read" =>
    /\ textBuffer = TextAfterWholeLines
    /\ calls = ExpDeltas(Delivered(pos))

\* ------------------------------------------------------- line terminators
IsNotCR(b) == b # "CR"

\* The bytes received so far with every CR LF terminator replaced by a bare
\* line feed (in the bodies drawn a carriage return occurs only in a
\* terminator; one received without its line feed is the start of one).
ReceivedWithLF == SelectSeq(SubSeq(body, 1, pos), IsNotCR)

\* C22: whatever subset of the lines ends in CR LF, the callbacks made (deltas
\* and terminal callback) are those the same stream makes with bare line feeds
\* throughout: while a chunk is awaited, after the sentinel and its flush,
\* after a clean close and its flush, and after a failed read.
C22_TerminatorsEquivalent ==
  (pc = "read" \/ exit \in {"sentinel", "eof", "readfail"}) =>
    calls = AloneCalls(ReceivedWithLF, Len(ReceivedWithLF), exit)

\* A sentinel line and a payload line, both ended by CR LF, arrived in one
\* chunk: the read loop stripped the first and recognized the sentinel, the
\* final flush stripped the second and emitted its delta.
C22_Witness ==
  /\ exit = "sentinel"
  /\ Len(lines) = 2
  /\ lines[1] = [kind |-> "done", term |-> "CRLF"]
  /\ IsPayload(lines[2])
  /\ lines[2].term = "CRLF"
  /\ calls = ExpDeltas(lines) \o <<Done>>

\* ------------------------------------------------------- a line that stays
\* Bodies whose first line is an unparsable data line, ended by LF or CR LF,
\* followed by payload and sentinel lines.
HeldBodies ==
  { <<[kind |-> "bad", term |-> t]>> \o ls :
      t \in {"LF", "CRLF"},
      ls \in UNION { [1..n -> [kind : {"delta_a", "delta_e", "done"}, term : {"LF"}]] :
                       n \in 0..MaxLines } }

\* The response is a success with such a body.
FetchOkHeld ==
  /\ pc = "fetch"
  /\ status' = 200
  /\ reader' = TRUE
  /\ pc' = "read"
  /\ \E ls \in HeldBodies :
       /\ lines' = ls
       /\ body' = Bytes(ls)
       /\ ends' = [i \in 1..Len(ls) |-> Len(Bytes(SubSeq(ls, 1, i)))]
  /\ UNCHANGED <<pos, cut, errorData, decPending, textBuffer, streamDone,
                 sentinelAt, calls, exit, abandoned, carried, peer,
                 edge, page>>

NextHeld ==
  \/ FetchOkHeld
  \/ ReadChunk
  \/ ReadEnd
  \/ ReadFail

SpecHeld == Init /\ [][NextHeld]_vars

\* The buffer opens with the unparsable data line as the scan puts it back.
HeadIsBadLine(buf) == StartsWith(buf, KindBytes("bad") \o <<"LF">>)

\* C23: from a state in which a whole unparsable data line is held while a
\* chunk is awaited, every step leaves the sentinel unrecognized; a further
\* chunk leaves the line at the head of the buffer, unchanged, with the new
\* text after what was already held, and makes no callback; a clean close
\* makes exactly the deltas of the payload lines after the held line, in
\* order, then onDone, and nothing for the held line; a failed read makes
\* only onError.
C23_FailedLineBlocksUntilFlush ==
  [][(pc = "read" /\ BadLineHeld /\ HeadIsBadLine(textBuffer)) =>
       /\ ~streamDone'
       /\ exit' # "sentinel"
       /\ pc' = "read" =>
            /\ calls' = calls
            /\ StartsWith(textBuffer', textBuffer)
       /\ exit' = "eof" =>
            calls' = calls
                       \o ExpDeltas(SubSeq(lines, FirstUnconsumed + 1, Len(lines)))
                       \o <<Done>>
       /\ exit' = "readfail" => calls' = Append(calls, Error(NetworkMsg))]_vars

\* The unparsable line and a sentinel line behind it were held while a chunk
\* boundary fell inside the third line, a payload line; the source then closed
\* and the flush emitted that payload line's delta and nothing else.
C23_Witness ==
  /\ exit = "eof"
  /\ cut = 3
  /\ lines[1].kind = "bad"
  /\ lines[2].kind = "done"
  /\ IsPayload(lines[3])
  /\ calls = <<Delta(Content(lines[3])), Done>>

\* ------------------------------------------------------- termination
\* Neither the request nor a read stays pending for ever.  A rejection is
\* possible for as long as the fetch is pending and for as long as a read is
\* pending, so weak fairness of the two rejections rules out exactly the
\* behaviours in which the session is left waiting without end; how it ends
\* (status, chunks, close, failure) stays open.  Each step runs the whole
\* handler, the inner scan and the final flush included.
SpecLive == Init /\ [][Next]_vars /\ WF_vars(FetchReject) /\ WF_vars(ReadFail)

\* C24: every session comes to an end, having returned with a terminal
\* callback (onDone or onError) as its last callback.
C24_SessionTerminates ==
  <>(/\ pc = "done"
     /\ Len(calls) >= 1
     /\ IsTerminal(calls[Len(calls)]))

\* A session ended by a clean close after an unparsable line had been pushed
\* back by the scan of an earlier chunk: the scan left its loop, and the
\* flush and onDone followed.
C24_Witness ==
  /\ exit = "eof"
  /\ cut = 2
  /\ lines[1] = [kind |-> "bad", term |-> "LF"]
  /\ calls[Len(calls)] = Done

\* ------------------------------------------------------- callbacks that throw
\* onDelta and onDone are called inside the outer try (375-458), onDelta also
\* inside the try around the parse (430-437, 450-454).  In the steps above a
\* callback returns normally; here it may throw.  A call that throws has been
\* made: it is recorded in calls like any other.
MaxCalls == 3

\* The inner loop with a sink that throws: the first onDelta it is invoked
\* with throws, the catch around the parse puts the line back and breaks.
RECURSIVE ScanSinkThrows(_, _)
ScanSinkThrows(buf, out) ==
  LET i == IndexOf(buf, "LF")
  IN IF i = 0 THEN [buf |-> buf, out |-> out, done |-> FALSE]
     ELSE LET line == StripCR(SubSeq(buf, 1, i - 1))
              rest == Drop(buf, i)
          IN IF StartsWith(line, <<":">>) \/ Trim(line) = <<>> THEN ScanSinkThrows(rest, out)
             ELSE IF ~StartsWith(line, DataPrefix) THEN ScanSinkThrows(rest, out)
             ELSE LET jsonStr == Trim(Drop(line, Len(DataPrefix)))
                      parsed == JsonParse(jsonStr)
                  IN IF jsonStr = Sentinel
                     THEN [buf |-> rest, out |-> out, done |-> TRUE]
                     ELSE IF parsed.ok /\ parsed.content = <<>>
                     THEN ScanSinkThrows(rest, out)
                     ELSE IF parsed.ok
                     THEN [buf |-> line \o <<"LF">> \o rest,
                           out |-> EmitContent(out, parsed.content),
                           done |-> FALSE]
                     ELSE [buf |-> line \o <<"LF">> \o rest, out |-> out, done |-> FALSE]

\* reader.read() resolves with a chunk and, in the scan, onDelta is invoked and
\* throws.  The number of callbacks is capped: every later chunk, an empty one
\* included, invokes onDelta for the same line again.
ReadChunkSinkThrows ==
  /\ pc = "read"
  /\ Len(calls) < MaxCalls
  /\ \E k \in 0..(Len(body) - pos) :
       LET d == Decode(decPending, SubSeq(body, pos + 1, pos + k), <<>>)
           s == ScanSinkThrows(AppendChunk(textBuffer, d.text), calls)
       IN /\ s.out # calls
          /\ pos' = pos + k
          /\ cut' = CutLine(pos + k, cut)
          /\ decPending' = d.pending
          /\ carried' = (carried \/ (decPending # <<>> /\ k > 0))
          /\ textBuffer' = s.buf
          /\ calls' = s.out
  /\ UNCHANGED <<lines, body, ends, pc, status, errorData, reader, streamDone,
                 sentinelAt, exit, abandoned, peer,
                 edge, page>>

\* reader.read() resolves with done = true, the flush runs, onDone() is called
\* and throws: the outer catch reports the network message.
ReadEndDoneThrows ==
  /\ pc = "read"
  /\ pos = Len(body)
  /\ calls' = Append(Finish(textBuffer, calls), Error(NetworkMsg))
  /\ pc' = "done"
  /\ exit' = "donethrew"
  /\ UNCHANGED <<lines, body, ends, pos, cut, status, errorData, reader, decPending,
                 textBuffer, streamDone, sentinelAt, abandoned,
                 carried, peer,
                 edge, page>>

NextThrow ==
  \/ FetchOkParsed
  \/ ReadChunk
  \/ ReadEnd
  \/ ReadFail
  \/ ReadChunkSinkThrows
  \/ ReadEndDoneThrows

SpecThrow == Init /\ [][NextThrow]_vars

\* C25: onError is never invoked after onDone in the same session, also when
\* onDone throws.
C25_NoErrorAfterDone ==
  \A i \in 1..Len(calls) : \A j \in 1..Len(calls) :
    (calls[i] = Done /\ i < j) => calls[j].cb # "onError"

\* How many of the callbacks made are onDelta with content c.
TimesDelivered(c) == Cardinality({ i \in 1..Len(calls) : calls[i] = Delta(c) })

\* How many payload lines of the body carry content c.
LinesWith(c) ==
  Cardinality({ i \in 1..Len(lines) : IsPayload(lines[i]) /\ Content(lines[i]) = c })

\* C26: the content of a payload line is passed to onDelta at most once, also
\* when onDelta throws: no content is delivered more often than the body has
\* lines carrying it.
C26_DeltaAtMostOnce ==
  \A c \in {<<"a">>, <<"E9">>} : TimesDelivered(c) <= LinesWith(c)

\* ------------------------------------------------------- the try-on edge function
\* handler(req) of the virtual-try-on function.  It suspends in req.json(), in
\* the analysis fetch and the reading of its body, and in the image fetch and
\* the reading of its body; it holds nothing between requests.
Methods == {"OPTIONS", "POST"}

\* What await req.json() gives: it rejects ("unreadable"), or resolves to null
\* or to an object.
RequestBodies == {"unreadable", "null", "object"}

\* A string field or environment variable: absent, the empty string, or set.
\* The first two are falsy.
Fields == {"absent", "empty", "set"}

Falsy(f) == f # "set"

\* How the analysis call can end: fetch rejects; a non-success status (429,
\* 402, another one) whose body text is read, or whose text() rejects ("x");
\* a success whose body is not JSON, is null, has no message content or an
\* empty one, or has content.
AnalysisOutcomes ==
  {"rejected", "429", "429x", "402", "402x", "500", "unreadable", "null", "empty",
   "content"}

\* How the image call can end: fetch rejects, a non-success status, a success
\* whose body is not JSON or is null, one without a url, one with a url.
ImageOutcomes == {"rejected", "notok", "unreadable", "null", "nourl", "url"}

Returned(e, st) == [e EXCEPT !.pc = "returned", !.status = st]

\* The handler from its entry to the first gateway call or to a return
\* (lines 18-50): OPTIONS, req.json(), the two image checks, the API key.
EdgeRequest ==
  /\ edge.pc = "idle"
  /\ \E m \in Methods, b \in RequestBodies, p \in Fields, c \in Fields,
        d \in BOOLEAN, k \in Fields :
       /\ b # "object" => (p = "absent" /\ c = "absent" /\ ~d)
       /\ LET e == [edge EXCEPT !.method = m, !.body = b, !.personImage = p,
                                !.clothingImage = c, !.clothingDescription = d,
                                !.apiKey = k]
          IN edge' =
               IF m = "OPTIONS" THEN Returned(e, 200)
               ELSE IF b # "object" THEN Returned(e, 500)
               ELSE IF Falsy(p) THEN Returned(e, 400)
               ELSE IF Falsy(c) THEN Returned(e, 400)
               ELSE IF Falsy(k) THEN Returned(e, 500)
               ELSE [e EXCEPT !.pc = "analysis", !.gatewayCalls = 1]
  /\ UNCHANGED <<own, peer, page>>

\* The analysis call settles (lines 50-120).
EdgeAnalysisSettles ==
  /\ edge.pc = "analysis"
  /\ \E a \in AnalysisOutcomes :
       LET e == [edge EXCEPT !.analysis = a]
       IN edge' =
            IF a = "429" THEN Returned(e, 429)
            ELSE IF a = "402" THEN Returned(e, 402)
            ELSE IF a = "content" THEN [e EXCEPT !.pc = "image", !.gatewayCalls = 2]
            ELSE Returned(e, 500)
  /\ UNCHANGED <<own, peer, page>>

\* The image call settles (lines 125-168): whatever happens the response is
\* the success response, with or without generatedImage.
EdgeImageSettles ==
  /\ edge.pc = "image"
  /\ \E i \in ImageOutcomes :
       edge' = [Returned(edge, 200) EXCEPT !.image = i, !.generatedImage = (i = "url")]
  /\ UNCHANGED <<own, peer, page>>

NextEdge ==
  \/ EdgeRequest
  \/ EdgeAnalysisSettles
  \/ EdgeImageSettles

SpecEdge == Init /\ [][NextEdge]_vars

\* C27: a returned request has the status of this table: OPTIONS 200; an
\* image missing 400 and no gateway call; no API key 500; gateway 429 and 402
\* passed on; any other analysis failure or an empty analysis 500; otherwise
\* 200, whatever the image call did.  A request
\* whose body cannot be read as an object has no row of its own: it supplies
\* neither image (400), or else falls under "otherwise" (200).
C27_StatusTable ==
  edge.pc = "returned" =>
    IF edge.method = "OPTIONS" THEN edge.status = 200
    ELSE IF edge.body # "object" THEN edge.status \in {400, 200}
    ELSE IF Falsy(edge.personImage) \/ Falsy(edge.clothingImage)
         THEN edge.status = 400 /\ edge.gatewayCalls = 0
    ELSE IF Falsy(edge.apiKey) THEN edge.status = 500
    ELSE IF edge.analysis \in {"429", "429x"} THEN edge.status = 429
    ELSE IF edge.analysis \in {"402", "402x"} THEN edge.status = 402
    ELSE IF edge.analysis # "content" THEN edge.status = 500
    ELSE edge.status = 200

\* ------------------------------------------------------- the page component
\* Index: uploadedImage, selectedClothing, result and isLoading, the handlers
\* handleGenerate and handleRetry, and what the rendered page lets the user
\* do.  The page is rendered again after each state change, before the next
\* event.
Catalogue == {"shirt", "dress"}

\* How supabase.functions.invoke can end for handleGenerate: data with a
\* result; a non-null error; data.error set; the call rejects; data with
\* neither error nor result (reading data.result.analysis throws).
InvokeOutcomes == {"success", "invokeError", "businessError", "thrown", "noResult"}

\* handleGenerate from its entry to the await (lines 18-43), or to an early
\* return.
HandleGenerate(p) ==
  IF ~p.uploadedImage THEN [p EXCEPT !.outcome = "noImage"]
  ELSE IF p.selectedClothing \notin Catalogue THEN [p EXCEPT !.outcome = "noClothing"]
  ELSE [p EXCEPT !.isLoading = TRUE,
                 !.result = FALSE,
                 !.inFlight = @ + 1,
                 !.requested = TRUE,
                 !.sent = [personImage |-> p.uploadedImage,
                           clothing |-> p.selectedClothing]]

\* UploadZone: an image is chosen or dropped.
PageUpload ==
  /\ page' = [page EXCEPT !.uploadedImage = TRUE]
  /\ UNCHANGED <<own, peer, edge>>

\* UploadZone: the image is removed.
PageRemoveImage ==
  /\ page.uploadedImage
  /\ page' = [page EXCEPT !.uploadedImage = FALSE]
  /\ UNCHANGED <<own, peer, edge>>

\* ClothingGallery: a card of the catalogue is clicked.
PageSelect ==
  /\ \E c \in Catalogue : page' = [page EXCEPT !.selectedClothing = c]
  /\ UNCHANGED <<own, peer, edge>>

\* The generate button, disabled unless canGenerate (lines 95, 163).
PageClickGenerate ==
  /\ page.uploadedImage
  /\ page.selectedClothing # "none"
  /\ ~page.isLoading
  /\ page' = HandleGenerate(page)
  /\ UNCHANGED <<own, peer, edge>>

\* The retry button, rendered by ResultPreview when there is a result and
\* nothing is loading: handleRetry clears the result and calls handleGenerate.
PageClickRetry ==
  /\ page.result
  /\ ~page.isLoading
  /\ page' = HandleGenerate([page EXCEPT !.result = FALSE])
  /\ UNCHANGED <<own, peer, edge>>

\* A run whose isLoading is reset only after a success: no finally block.
PageInvokeSettles_NoFinally ==
  /\ page.inFlight > 0
  /\ \E o \in InvokeOutcomes :
       page' = [page EXCEPT !.result = IF o = "success" THEN TRUE ELSE @,
                            !.isLoading = IF o = "success" THEN FALSE ELSE @,
                            !.inFlight = @ - 1,
                            !.outcome = o]
  /\ UNCHANGED <<own, peer, edge>>

\* The invoke settles and the run goes on to its end (lines 51-78): setResult
\* on success, the catch otherwise, setIsLoading(false) in the finally.
PageInvokeSettles ==
  /\ page.inFlight > 0
  /\ \E o \in InvokeOutcomes :
       page' = [page EXCEPT !.result = IF o = "success" THEN TRUE ELSE @,
                            !.isLoading = FALSE,
                            !.inFlight = @ - 1,
                            !.outcome = o]
  /\ UNCHANGED <<own, peer, edge>>

NextPage ==
  \/ PageUpload
  \/ PageRemoveImage
  \/ PageSelect
  \/ PageClickGenerate
  \/ PageClickRetry
  \/ PageInvokeSettles

SpecPage == Init /\ [][NextPage]_vars

\* C28: a try-on request has only ever been sent with an uploaded image and a
\* catalogue item; isLoading is true only while a run awaits the function, so
\* every run that set it has reset it when it ends, however it ends; and when
\* no run is in progress a non-null result means the last run succeeded.
C28_LoadingResetAndResultOnSuccess ==
  /\ page.requested => (page.sent.personImage /\ page.sent.clothing \in Catalogue)
  /\ page.isLoading <=> page.inFlight > 0
  /\ (page.inFlight = 0 /\ page.result) => page.outcome = "success"

\* A run that sent a request has ended in a thrown exception: isLoading is
\* false again and there is no result.
C28_Witness ==
  /\ page.requested
  /\ page.inFlight = 0
  /\ page.outcome = "thrown"
  /\ ~page.isLoading
  /\ ~page.result

====
